---- MODULE Spec2Model ----
(***************************************************************************)
(* A model of slippost.py: the per-frame feature extractors, the frame     *)
(* classifier, the match summarizer (game_summary), the cross-match        *)
(* aggregator (merge_game_stats) and the module-level batch loop.          *)
(*                                                                         *)
(* Python values are modelled as follows.                                  *)
(*   None              the empty tuple <<>>                                *)
(*   enum member       a record with its name (and value, when ordered)    *)
(*   list / tuple      a sequence; Python index k is TLA+ index k+1        *)
(*   dict / Counter    a function whose DOMAIN is the set of keys          *)
(*   a raised error    a record [ok |-> FALSE, error |-> <exception>]      *)
(***************************************************************************)
EXTENDS Integers, Sequences, FiniteSets, TLC

VARIABLES
    pc,               \* where the modelled run stands
    port_data,        \* ExtractSpec: the Port.Data handed to the extractors
    features,         \* ExtractSpec: result of _handle_frame_port
    game,             \* SummarySpec: the sl.Game handed to game_summary;
                      \* Spec: the game on which game_summary raised
    player_summaries, \* SummarySpec: outcome of game_summary(game)
    operands,         \* MergeSpec: <<A, B, C>>, three Aggregate Statistics
    merges,           \* MergeSpec: the merges computed from the operands
    consumed,         \* Spec: how many globbed files load_all has tried
    yielded,          \* Spec: how many games load_all has yielded (i + 1)
    this_game_stats,  \* Spec: module variable this_game_stats
    combined_stats,   \* Spec: module variable combined_stats
    merged            \* Spec: history, the loaded matches merged so far

vars == <<pc, port_data, features, game, player_summaries, operands, merges,
          consumed, yielded, this_game_stats, combined_stats, merged>>

extract_vars == <<port_data, features>>
summary_vars == <<game, player_summaries>>
merge_vars   == <<operands, merges>>
batch_vars   == <<consumed, yielded, this_game_stats, combined_stats, merged>>

None == <<>>

Ok(v) == [ok |-> TRUE, value |-> v]

Raise(e) == [ok |-> FALSE, error |-> e]

(***************************************************************************)
(* Bounds of the model.                                                    *)
(***************************************************************************)
MaxFrames == 2      \* frames per match
MaxHitStun == 1     \* largest stun-duration counter
MaxFiles == 2       \* files the glob returns (the code reads at most GlobLimit)

GlobLimit == 5      \* glob.glob(logs_dir)[:5]

(***************************************************************************)
(* The library's enums, as far as the program reads them.                  *)
(***************************************************************************)
AS(n) == [name |-> n]

GroupedStates == {AS("WAIT"), AS("SQUAT_WAIT"), AS("WALK_FAST"),
                  AS("WALK_MIDDLE"), AS("WALK_SLOW"), AS("DASH")}

ActionState == GroupedStates \cup {AS("RUN"), AS("JUMP_F")}

\* Physical buttons are IntFlag members: sorted() orders them by value.
ButtonL == [name |-> "L", value |-> 64]

ButtonA == [name |-> "A", value |-> 256]

Physical == {ButtonL, ButtonA}

(***************************************************************************)
(* STATE_GROUPS, a dict in insertion order: frozenset -> label.            *)
(***************************************************************************)
STATE_GROUPS ==
    << [groupset |-> {AS("WAIT"), AS("SQUAT_WAIT")}, name |-> "WAIT"],
       [groupset |-> {AS("WALK_FAST"), AS("WALK_MIDDLE"), AS("WALK_SLOW")},
        name |-> "WALK"],
       [groupset |-> {AS("DASH")}, name |-> "DASH"] >>

(***************************************************************************)
(* Feature extractors.                                                     *)
(***************************************************************************)
\* sorted(buttons): ascending by IntFlag value.
RECURSIVE sorted(_)
sorted(buttons) ==
    LET S == {buttons[k] : k \in DOMAIN buttons} IN
    IF S = {} THEN <<>>
    ELSE LET m == CHOOSE b \in S : \A c \in S : b.value <= c.value
             rest == SelectSeq(buttons, LAMBDA b : b # m)
             copies == Len(buttons) - Len(rest)
         IN [k \in 1..copies |-> m] \o sorted(rest)

\* physical.pressed(): the list of the members whose bit is set.
RECURSIVE pressed(_)
pressed(physical) ==
    IF physical = {} THEN <<>>
    ELSE LET m == CHOOSE b \in physical : \A c \in physical : b.value <= c.value
         IN <<m>> \o pressed(physical \ {m})

\* ",".join(names)
RECURSIVE join(_)
join(names) ==
    IF names = <<>> THEN ""
    ELSE IF Len(names) = 1 THEN names[1]
    ELSE names[1] \o "," \o join(Tail(names))

\* buttons is always the list pressed() returns, so the branch for a single
\* non-list member (buttons.name) is never taken.
_fmt_buttons(buttons) ==
    IF buttons # <<>>
    THEN join([k \in DOMAIN sorted(buttons) |-> sorted(buttons)[k].name])
    ELSE "(no input)"

_buttons(pd) == _fmt_buttons(pressed(pd.pre.buttons.physical))

\* The stun test off by one: >= in place of >.
HitstunAlways(pd) == IF pd.post.hit_stun >= 0 THEN _buttons(pd) ELSE "(not in hitstun)"

_hitstun_buttons(pd) ==
    IF pd.post.hit_stun > 0 THEN _buttons(pd) ELSE "(not in hitstun)"

RECURSIVE StateGroupFrom(_, _)
StateGroupFrom(k, pd) ==
    IF k > Len(STATE_GROUPS) THEN "OTHER"
    ELSE IF pd.post.state \in STATE_GROUPS[k].groupset
         THEN STATE_GROUPS[k].name
         ELSE StateGroupFrom(k + 1, pd)

\* A state in no group falls into the first group's label.
StateGroupDefaultWait(pd) ==
    IF \E k \in DOMAIN STATE_GROUPS : pd.post.state \in STATE_GROUPS[k].groupset
    THEN StateGroupFrom(1, pd)
    ELSE "WAIT"

_state_group(pd) == StateGroupFrom(1, pd)

_state(pd) == pd.post.state.name

StatNames == {"buttons", "hitstun_buttons", "state_group", "full_state"}

FRAME_DATA_HANDLERS(stat_name, pd) ==
    CASE stat_name = "buttons" -> _buttons(pd)
      [] stat_name = "hitstun_buttons" -> _hitstun_buttons(pd)
      [] stat_name = "state_group" -> _state_group(pd)
      [] stat_name = "full_state" -> _state(pd)

_handle_frame_port(port) ==
    [stat_name \in StatNames |-> FRAME_DATA_HANDLERS(stat_name, port.leader)]

\* {i: ... for i, frame_port in enumerate(frame.ports) if frame_port}
_handle_frame(frame) ==
    [i \in {k - 1 : k \in {j \in DOMAIN frame.ports : frame.ports[j] # None}}
        |-> _handle_frame_port(frame.ports[i + 1])]

(***************************************************************************)
(* Match summarizer.                                                       *)
(***************************************************************************)
\* A Counter that records which elements occur, not how often.
CounterDistinct(items) == [c \in {items[k] : k \in DOMAIN items} |-> 1]

\* Counter(iterable): each element that occurs, with how often it occurs.
Counter(items) ==
    [c \in {items[k] : k \in DOMAIN items}
        |-> Cardinality({k \in DOMAIN items : items[k] = c})]

\* sum(counter.values())
RECURSIVE SumOver(_, _)
SumOver(counter, keys) ==
    IF keys = {} THEN 0
    ELSE LET c == CHOOSE x \in keys : TRUE
         IN counter[c] + SumOver(counter, keys \ {c})

Total(counter) == SumOver(counter, DOMAIN counter)

\* frame_stats[0] raises IndexError on an empty list.
_summarize_player_frames(player_name, frame_stats) ==
    IF frame_stats = <<>> THEN Raise("IndexError")
    ELSE LET stats_keys == DOMAIN frame_stats[1] IN
         Ok([stats_key \in stats_keys |->
                Counter([k \in DOMAIN frame_stats |-> frame_stats[k][stats_key]])])

\* f"{player.netplay_name} ({list(player.characters.keys())[0].name})"
PlayerKey(player) ==
    player.netplay_name \o " (" \o player.characters[1].name \o ")"

\* d[k] = v on a dict
Put(d, k, v) == [x \in DOMAIN d \cup {k} |-> IF x = k THEN v ELSE d[x]]

\* The body of game_summary's for loop, from enumerate index i on; present is
\* the generator (p for p in g.metadata.players if p) as a list.
RECURSIVE SummaryLoop(_, _, _, _)
SummaryLoop(present, i, framewise_summaries, acc) ==
    IF i >= Len(present) THEN Ok(acc)
    ELSE LET player == present[i + 1]
             player_key == PlayerKey(player)
         IN IF \E k \in DOMAIN framewise_summaries :
                   i \notin DOMAIN framewise_summaries[k]
            THEN Raise("KeyError")
            ELSE LET r == _summarize_player_frames(player_key,
                              [k \in DOMAIN framewise_summaries |->
                                  framewise_summaries[k][i]])
                 IN IF ~r.ok THEN r
                    ELSE SummaryLoop(present, i + 1, framewise_summaries,
                                     Put(acc, player_key, r.value))

game_summary(g) ==
    LET framewise_summaries == [k \in DOMAIN g.frames |-> _handle_frame(g.frames[k])]
        present == SelectSeq(g.metadata.players, LAMBDA p : p # None)
    IN SummaryLoop(present, 0, framewise_summaries, <<>>)

(***************************************************************************)
(* Cross-match aggregator.                                                 *)
(***************************************************************************)
\* d.get(k, default); also Counter's zero for a missing element
get(d, k, default) == IF k \in DOMAIN d THEN d[k] ELSE default

\* The keys of the first dict only.
UnionKeysFirstOnly(first, second) == DOMAIN first

_union_keys(first, second) == DOMAIN first \cup DOMAIN second

\* dict.update in place of Counter addition: the second count replaces the first.
CounterAddOverride(a, b) ==
    [c \in DOMAIN a \cup DOMAIN b |-> IF c \in DOMAIN b THEN b[c] ELSE a[c]]

\* Counter.__add__: the counts added, only the positive ones kept.
CounterAdd(a, b) ==
    LET count(c) == get(a, c, 0) + get(b, c, 0) IN
    [c \in {k \in DOMAIN a \cup DOMAIN b : count(k) > 0} |-> count(c)]

\* An axis both players have keeps the first one's table.
MergePlayerStatsFirstWins(first, second) ==
    [stat_name \in _union_keys(first, second) |->
        IF stat_name \in DOMAIN first THEN first[stat_name] ELSE second[stat_name]]

_merge_player_stats(first, second) ==
    [stat_name \in _union_keys(first, second) |->
        CounterAdd(get(first, stat_name, <<>>), get(second, stat_name, <<>>))]

merge_game_stats(first, second) ==
    [player_name \in _union_keys(first, second) |->
        _merge_player_stats(get(first, player_name, <<>>),
                            get(second, player_name, <<>>))]

(***************************************************************************)
(* Input domains.                                                          *)
(***************************************************************************)
PortData(states, stuns, buttonsets) ==
    [pre : [buttons : [physical : buttonsets]],
     post : [state : states, hit_stun : stuns]]

AllPortData == PortData(ActionState, 0..MaxHitStun, SUBSET Physical)

Port(pd) == [leader |-> pd]

Slots == 0..2

Player(name, chars) == [netplay_name |-> name, characters |-> chars]

Fox == [name |-> "FOX"]

Marth == [name |-> "MARTH"]

InGameCharacter == {Fox, Marth}

\* Two players with the same Player Key (same name, same first character)
\* and one with another key.
Players == {Player("a", <<Fox>>), Player("a", <<Fox, Marth>>),
            Player("b", <<Marth>>)}

\* Metadata.players: one entry per slot, None where the slot is empty.
Metadatas(slots, players) ==
    {[players |-> ps] : ps \in [1..Cardinality(slots) -> players \cup {None}]}

PresentSlots(md) == {k - 1 : k \in {j \in DOMAIN md.players : md.players[j] # None}}

\* A frame of a match holds a Port in exactly the slots where Metadata holds
\* a player (the fixed slot correspondence), None elsewhere.
FramesOf(md, pds) ==
    {[ports |-> ps] :
        ps \in {f \in [DOMAIN md.players -> {Port(pd) : pd \in pds} \cup {None}] :
                  \A j \in DOMAIN md.players :
                      (f[j] = None) <=> (md.players[j] = None)}}

\* The matches with Metadata md, frames over pds, at most n frames.
GamesOf(md, pds, n) ==
    UNION {{[metadata |-> md, frames |-> fs] : fs \in [1..k -> FramesOf(md, pds)]}
             : k \in 0..n}

Games(mds, pds, n) == UNION {GamesOf(md, pds, n) : md \in mds}

\* Two distinguishable records, for the matches that vary the slots.
CalmData == [pre |-> [buttons |-> [physical |-> {}]],
             post |-> [state |-> AS("WAIT"), hit_stun |-> 0]]

StunData == [pre |-> [buttons |-> [physical |-> {ButtonA, ButtonL}]],
             post |-> [state |-> AS("DASH"), hit_stun |-> 1]]

SlotPortData == {CalmData, StunData}

\* One player in slot 0, many kinds of frame.
FeaturePortData ==
    PortData({AS("WAIT"), AS("JUMP_F")}, 0..MaxHitStun, SUBSET Physical)

FeatureMetadatas == {[players |-> <<Player("a", <<Fox>>), None, None>>]}

\* The matches of a batch: two slots, two Player Keys (a key may occur in
\* both slots), and the matches on which game_summary raises.
BatchPlayers == {Player("a", <<Fox>>), Player("b", <<Marth>>)}

BatchGames == Games(Metadatas(0..1, BatchPlayers), SlotPortData, MaxFrames)

PlayerKeys(g) ==
    {PlayerKey(g.metadata.players[j]) :
        j \in {k \in DOMAIN g.metadata.players : g.metadata.players[k] # None}}

\* What the loop body sees of a loaded match: the keys of its players, the
\* number of its frames, and the outcome of game_summary on it.
Loaded(g) ==
    [keys |-> PlayerKeys(g), nframes |-> Len(g.frames), summary |-> game_summary(g)]

BatchLoads == {Loaded(g) : g \in BatchGames}

\* The matches of a batch on which game_summary raises.
RaisingGames == {g \in BatchGames : ~game_summary(g).ok}

\* Aggregate Statistics built from match summaries.
Aggregates ==
    {l.summary.value : l \in {x \in BatchLoads : x.summary.ok}}

(***************************************************************************)
(* ExtractSpec: the extractors applied to one Port.Data.                   *)
(***************************************************************************)
ExtractInit ==
    /\ pc = "extract"
    /\ port_data \in AllPortData
    /\ features = None
    /\ game = None /\ player_summaries = None
    /\ operands = None /\ merges = None
    /\ consumed = 0 /\ yielded = 0 /\ this_game_stats = None
    /\ combined_stats = <<>> /\ merged = <<>>

HandleFramePort ==
    /\ pc = "extract"
    /\ features' = _handle_frame_port(Port(port_data))
    /\ pc' = "extracted"
    /\ UNCHANGED <<port_data, summary_vars, merge_vars, batch_vars>>

ExtractNext == HandleFramePort

ExtractSpec == ExtractInit /\ [][ExtractNext]_vars

(***************************************************************************)
(* SummarySpec: game_summary applied to one match, which is either any     *)
(* assignment of players to the slots with few kinds of frame, or one      *)
(* player in slot 0 with many kinds of frame.                              *)
(***************************************************************************)
SummaryInit ==
    /\ pc = "summarize"
    /\ \/ \E md \in Metadatas(Slots, Players) : \E k \in 0..MaxFrames :
             \E fs \in [1..k -> FramesOf(md, SlotPortData)] :
                game = [metadata |-> md, frames |-> fs]
       \/ \E md \in FeatureMetadatas : \E k \in 0..MaxFrames :
             \E fs \in [1..k -> FramesOf(md, FeaturePortData)] :
                game = [metadata |-> md, frames |-> fs]
    /\ player_summaries = None
    /\ port_data = None /\ features = None
    /\ operands = None /\ merges = None
    /\ consumed = 0 /\ yielded = 0 /\ this_game_stats = None
    /\ combined_stats = <<>> /\ merged = <<>>

GameSummary ==
    /\ pc = "summarize"
    /\ player_summaries' = game_summary(game)
    /\ pc' = "summarized"
    /\ UNCHANGED <<game, extract_vars, merge_vars, batch_vars>>

SummaryNext == GameSummary

SummarySpec == SummaryInit /\ [][SummaryNext]_vars

(***************************************************************************)
(* MergeSpec: merge_game_stats applied to three Aggregate Statistics.      *)
(***************************************************************************)
MergeInit ==
    /\ pc = "merge"
    /\ operands \in Aggregates \X Aggregates \X Aggregates
    /\ merges = None
    /\ port_data = None /\ features = None
    /\ game = None /\ player_summaries = None
    /\ consumed = 0 /\ yielded = 0 /\ this_game_stats = None
    /\ combined_stats = <<>> /\ merged = <<>>

MergeGameStats ==
    /\ pc = "merge"
    /\ LET A == operands[1]
           B == operands[2]
           C == operands[3]
       IN merges' = [ab |-> merge_game_stats(A, B),
                     ba |-> merge_game_stats(B, A),
                     ab_c |-> merge_game_stats(merge_game_stats(A, B), C),
                     a_bc |-> merge_game_stats(A, merge_game_stats(B, C)),
                     b_ac |-> merge_game_stats(B, merge_game_stats(A, C)),
                     empty_a |-> merge_game_stats(<<>>, A),
                     a_empty |-> merge_game_stats(A, <<>>)]
    /\ pc' = "merged"
    /\ UNCHANGED <<operands, extract_vars, summary_vars, batch_vars>>

MergeNext == MergeGameStats

MergeSpec == MergeInit /\ [][MergeNext]_vars

(***************************************************************************)
(* Spec: the module-level batch loop over load_all().                      *)
(***************************************************************************)
Init ==
    /\ pc = "loop"
    /\ consumed = 0
    /\ yielded = 0
    /\ this_game_stats = None
    /\ combined_stats = <<>>
    /\ merged = <<>>
    /\ port_data = None /\ features = None
    /\ game = None /\ player_summaries = None
    /\ operands = None /\ merges = None

Min(a, b) == IF a <= b THEN a ELSE b

\* load_all has another file to try: glob.glob(logs_dir)[:5]
MoreFiles == consumed < Min(MaxFiles, GlobLimit)

\* load(gamefile) raises: load_all prints and goes on to the next file.
LoadFails ==
    /\ pc = "loop"
    /\ MoreFiles
    /\ consumed' = consumed + 1
    /\ UNCHANGED <<pc, yielded, this_game_stats, combined_stats, merged,
                   extract_vars, summary_vars, merge_vars>>

\* load(gamefile) returns g, which load_all yields; the loop body runs.
ProcessGame ==
    /\ pc = "loop"
    /\ MoreFiles
    /\ \E l \in BatchLoads :
         /\ l.summary.ok
         /\ this_game_stats' = l.summary.value
         /\ combined_stats' = merge_game_stats(combined_stats, l.summary.value)
         /\ merged' = Append(merged, l)
    /\ consumed' = consumed + 1
    /\ yielded' = yielded + 1
    /\ UNCHANGED <<pc, extract_vars, summary_vars, merge_vars>>

\* game_summary(g) raises in the loop body: nothing catches it (the try of
\* load_all covers load only), the module stops with the traceback.
ProcessGameRaises ==
    /\ pc = "loop"
    /\ MoreFiles
    /\ \E g \in RaisingGames : game' = g
    /\ pc' = "crashed"
    /\ consumed' = consumed + 1
    /\ yielded' = yielded + 1
    /\ UNCHANGED <<this_game_stats, combined_stats, merged, player_summaries,
                   extract_vars, merge_vars>>

\* load_all is exhausted: the loop ends and the report is printed.
Finish ==
    /\ pc = "loop"
    /\ pc' = "done"
    /\ UNCHANGED <<batch_vars, extract_vars, summary_vars, merge_vars>>

Next == LoadFails \/ ProcessGame \/ ProcessGameRaises \/ Finish

Spec == Init /\ [][Next]_vars

(***************************************************************************)
(* Properties.                                                             *)
(***************************************************************************)
Sentinel == "(not in hitstun)"

\* The slots of game g whose player derives Player Key key.
SlotsOfKey(g, key) ==
    {j \in PresentSlots(g.metadata) : PlayerKey(g.metadata.players[j + 1]) = key}

\* The Frame Classifier's output for slot j over the frames of g, counted.
SlotCounters(g, j) ==
    [stat_name \in StatNames |->
        Counter([k \in DOMAIN g.frames |->
                    _handle_frame_port(g.frames[k].ports[j + 1])[stat_name]])]

DistinctKeys(g) ==
    \A j1, j2 \in PresentSlots(g.metadata) :
        PlayerKey(g.metadata.players[j1 + 1]) = PlayerKey(g.metadata.players[j2 + 1])
            => j1 = j2

\* C9: _state_group is total and yields exactly one label: the label of the
\* group that holds the state (the groups are pairwise disjoint), and OTHER
\* for every state in no group; no other label comes out for such a state.
C9_StateGroupPartition ==
    /\ \A j, k \in DOMAIN STATE_GROUPS :
          j # k => STATE_GROUPS[j].groupset \cap STATE_GROUPS[k].groupset = {}
    /\ pc = "extracted" =>
          LET st == port_data.post.state
              label == features["state_group"]
              holders == {k \in DOMAIN STATE_GROUPS : st \in STATE_GROUPS[k].groupset}
          IN /\ \A k \in holders : label = STATE_GROUPS[k].name
             /\ holders = {} => label = "OTHER"
             /\ label # "OTHER" => holders # {}

C9_Witness ==
    /\ pc = "extracted"
    /\ port_data.post.state = AS("JUMP_F")
    /\ features["state_group"] = "OTHER"
    /\ features["full_state"] = "JUMP_F"

\* C8: on the hitstun_buttons axis of a match summary the sentinel's count
\* plus the counts of the button values is the number of frames; the sentinel
\* comes out exactly for the frames whose post.hit_stun is not greater than
\* zero, the buttons value exactly for the frames where it is.
C8_HitstunConservation ==
    (pc = "summarized" /\ player_summaries.ok) =>
        /\ \A k \in DOMAIN game.frames : \A j \in PresentSlots(game.metadata) :
              LET pd == game.frames[k].ports[j + 1].leader
                  v == _handle_frame(game.frames[k])[j]["hitstun_buttons"]
              IN /\ (v = Sentinel) <=> ~(pd.post.hit_stun > 0)
                 /\ pd.post.hit_stun > 0 => v = _buttons(pd)
        /\ \A key \in DOMAIN player_summaries.value :
              LET t == player_summaries.value[key]["hitstun_buttons"]
                  real == DOMAIN t \ {Sentinel}
                  own == SlotsOfKey(game, key)
              IN /\ get(t, Sentinel, 0) + SumOver(t, real) = Len(game.frames)
                 /\ \A j \in own : Cardinality(own) = 1 =>
                       /\ get(t, Sentinel, 0) =
                             Cardinality({k \in DOMAIN game.frames :
                                 game.frames[k].ports[j + 1].leader.post.hit_stun <= 0})
                       /\ \A c \in real : t[c] =
                             Cardinality({k \in DOMAIN game.frames :
                                 /\ game.frames[k].ports[j + 1].leader.post.hit_stun > 0
                                 /\ _buttons(game.frames[k].ports[j + 1].leader) = c})

C8_Witness ==
    /\ pc = "summarized"
    /\ player_summaries.ok
    /\ Len(game.frames) = 2
    /\ \E key \in DOMAIN player_summaries.value :
          LET t == player_summaries.value[key]["hitstun_buttons"]
          IN Sentinel \in DOMAIN t /\ "L,A" \in DOMAIN t

\* C3: game_summary on a match with zero frames and at least one present
\* player does not fail: every present player gets an entry whose table is
\* empty on every Feature Axis.
C3_ZeroFramesEmptyTables ==
    (/\ pc = "summarized"
     /\ game.frames = <<>>
     /\ PresentSlots(game.metadata) # {}) =>
        /\ player_summaries.ok
        /\ \A j \in PresentSlots(game.metadata) :
              LET key == PlayerKey(game.metadata.players[j + 1])
              IN /\ key \in DOMAIN player_summaries.value
                 /\ \A stat_name \in StatNames :
                       /\ stat_name \in DOMAIN player_summaries.value[key]
                       /\ player_summaries.value[key][stat_name] = <<>>

\* C4: every present player is summarized from the feature maps of the slot
\* that player occupies, whatever slots are empty, and no missing slot is
\* looked up (stated for matches with frames and pairwise distinct keys).
C4_OwnSlotSummarized ==
    (/\ pc = "summarized"
     /\ game.frames # <<>>
     /\ DistinctKeys(game)) =>
        /\ player_summaries.ok
        /\ \A j \in PresentSlots(game.metadata) :
              LET key == PlayerKey(game.metadata.players[j + 1])
              IN /\ key \in DOMAIN player_summaries.value
                 /\ player_summaries.value[key] = SlotCounters(game, j)

\* The tables of the given slots added up.
RECURSIVE SumSlotCounters(_, _, _)
SumSlotCounters(g, slots, stat_name) ==
    IF slots = {} THEN <<>>
    ELSE LET j == CHOOSE x \in slots : TRUE
         IN CounterAdd(SlotCounters(g, j)[stat_name],
                       SumSlotCounters(g, slots \ {j}, stat_name))

\* C10: no present player's frames are lost: when two present players derive
\* the same Player Key, the table under that key counts the frames of both.
C10_NoPlayerLost ==
    (/\ pc = "summarized"
     /\ player_summaries.ok) =>
        /\ DOMAIN player_summaries.value =
              {PlayerKey(game.metadata.players[j + 1]) : j \in PresentSlots(game.metadata)}
        /\ \A key \in DOMAIN player_summaries.value : \A stat_name \in StatNames :
              player_summaries.value[key][stat_name] =
                  SumSlotCounters(game, SlotsOfKey(game, key), stat_name)

\* C1: merge_game_stats is commutative and associative on Aggregate
\* Statistics built from match summaries: merge(merge(A,B),C) =
\* merge(A,merge(B,C)) = merge(B,merge(A,C)) and merge(A,B) = merge(B,A).
C1_MergeCommutativeAssociative ==
    pc = "merged" =>
        /\ merges.ab_c = merges.a_bc
        /\ merges.a_bc = merges.b_ac
        /\ merges.ab = merges.ba

\* Three different operands that share a player, with tables that differ.
C1_Witness ==
    /\ pc = "merged"
    /\ operands[1] # operands[2] /\ operands[2] # operands[3]
    /\ operands[1] # operands[3]
    /\ \E key \in DOMAIN operands[1] \cap DOMAIN operands[2] \cap DOMAIN operands[3] :
          /\ operands[1][key] # operands[2][key]
          /\ operands[2][key] # operands[3][key]
    /\ merges.ab_c = merges.b_ac

\* The merge scenario: P1 in both inputs, P2 in the second only.
Example1 == [k \in {"P1"} |-> [full_state |-> [WAIT |-> 2]]]

Example2 == ("P1" :> [full_state |-> [DASH |-> 1]])
            @@ ("P2" :> [full_state |-> [WAIT |-> 5]])

ExampleMerged == ("P1" :> [full_state |-> [WAIT |-> 2, DASH |-> 1]])
                 @@ ("P2" :> [full_state |-> [WAIT |-> 5]])

\* C5: the keys of merge(A,B) are the keys of A and of B; a key of both has
\* the axes of both, each table the element-wise sum with a missing category
\* counting zero; a key of one input keeps that input's tables.
C5_MergeUnionAndSum ==
    /\ merge_game_stats(Example1, Example2) = ExampleMerged
    /\ pc = "merged" =>
          LET A == operands[1]
              B == operands[2]
              R == merges.ab
          IN /\ DOMAIN R = DOMAIN A \cup DOMAIN B
             /\ \A key \in DOMAIN A \cap DOMAIN B :
                   /\ DOMAIN R[key] = DOMAIN A[key] \cup DOMAIN B[key]
                   /\ \A axis \in DOMAIN R[key] :
                         LET ta == get(A[key], axis, <<>>)
                             tb == get(B[key], axis, <<>>)
                         IN /\ DOMAIN R[key][axis] = DOMAIN ta \cup DOMAIN tb
                            /\ \A c \in DOMAIN R[key][axis] :
                                  R[key][axis][c] = get(ta, c, 0) + get(tb, c, 0)
             /\ \A key \in DOMAIN A \ DOMAIN B : R[key] = A[key]
             /\ \A key \in DOMAIN B \ DOMAIN A : R[key] = B[key]

\* A key of both with a category only the first has and one both have, and a
\* key only the second input has.
C5_Witness ==
    /\ pc = "merged"
    /\ DOMAIN operands[2] \ DOMAIN operands[1] # {}
    /\ \E key \in DOMAIN operands[1] \cap DOMAIN operands[2] :
          LET ta == operands[1][key]["full_state"]
              tb == operands[2][key]["full_state"]
          IN /\ DOMAIN ta \ DOMAIN tb # {}
             /\ \E c \in DOMAIN ta \cap DOMAIN tb :
                   merges.ab[key]["full_state"][c] = ta[c] + tb[c]

\* C6: the empty Aggregate Statistics is an identity of merge_game_stats:
\* merge({}, X) = X and merge(X, {}) = X.
C6_EmptyIsIdentity ==
    pc = "merged" =>
        /\ merges.empty_a = operands[1]
        /\ merges.a_empty = operands[1]

C6_Witness ==
    /\ pc = "merged"
    /\ Cardinality(DOMAIN operands[1]) = 2
    /\ \E key \in DOMAIN operands[1] :
          Cardinality(DOMAIN operands[1][key]["buttons"]) = 2
    /\ merges.empty_a = operands[1]

\* The frames of the merged matches in which key appears.
RECURSIVE FramesOfKey(_, _)
FramesOfKey(loads, key) ==
    IF loads = <<>> THEN 0
    ELSE (IF key \in Head(loads).keys THEN Head(loads).nframes ELSE 0)
         + FramesOfKey(Tail(loads), key)

\* C2: in every match summary each table's counts add up to the number of
\* frames of the match, and in the running total the counts of each (player,
\* axis) add up to the frames of all merged matches the player appears in.
C2_FrameConservation ==
    /\ \A k \in DOMAIN merged :
          \A key \in DOMAIN merged[k].summary.value :
             \A axis \in DOMAIN merged[k].summary.value[key] :
                Total(merged[k].summary.value[key][axis]) = merged[k].nframes
    /\ merged # <<>> =>
          \A key \in DOMAIN this_game_stats : \A axis \in StatNames :
             Total(this_game_stats[key][axis]) = merged[Len(merged)].nframes
    /\ DOMAIN combined_stats = UNION {merged[k].keys : k \in DOMAIN merged}
    /\ \A key \in DOMAIN combined_stats :
          /\ DOMAIN combined_stats[key] = StatNames
          /\ \A axis \in DOMAIN combined_stats[key] :
                Total(combined_stats[key][axis]) = FramesOfKey(merged, key)

\* Two matches of different length merged, a player in both and one in one.
C2_Witness ==
    /\ Len(merged) = 2
    /\ merged[1].nframes = 1 /\ merged[2].nframes = 2
    /\ \E key \in merged[1].keys \cap merged[2].keys :
          Total(combined_stats[key]["hitstun_buttons"]) = 3
    /\ \E key \in merged[2].keys \ merged[1].keys :
          Total(combined_stats[key]["buttons"]) = 2

\* The summaries of the given matches folded in order, from the empty total.
RECURSIVE MergeOfSummaries(_)
MergeOfSummaries(loads) ==
    IF loads = <<>> THEN <<>>
    ELSE merge_game_stats(MergeOfSummaries(SubSeq(loads, 1, Len(loads) - 1)),
                          loads[Len(loads)].summary.value)

\* C7: a file whose load fails is skipped and leaves the running total as it
\* is; every yielded game is summarized and merged exactly once, so the
\* running total is the merge of the summaries of exactly the loaded matches.
C7_EveryLoadedGameMerged ==
    /\ Len(merged) = yielded
    /\ combined_stats = MergeOfSummaries(merged)

====
